---- MODULE Spec2Model ----
(***************************************************************************)
(* Model of java/app.go: AndroidApp.aaptFlags and                          *)
(* AndroidApp.GenerateAndroidBuildActions.                                 *)
(*                                                                         *)
(* Strings are sequences of chunks (short TLA+ strings).  The chunking is  *)
(* chosen so that one string is a character prefix of another exactly when *)
(* its chunk sequence is a prefix of the other's: "/" and " " are always   *)
(* chunks of their own, and the option names "--version-code",             *)
(* "--version-name" and "--product" are always chunked the same way.       *)
(* Go slices are (array, length) pairs into a per-module heap of backing   *)
(* arrays, so that append's in-place writes and reallocations are visible. *)
(***************************************************************************)
EXTENDS Integers, Sequences, FiniteSets, TLC

VARIABLES
    config,            \* ctx.AConfig(): the read-only build configuration
    fs,                \* the source tree as seen by ctx.Glob / OverlayPath
    graph,             \* the modules of the build graph the walker evaluates
    name,              \* ctx.ModuleName() of each module
    deps,              \* the direct dependencies VisitDirectDeps enumerates
    properties,        \* Module.properties (Manifest)
    deviceProperties,  \* Module.deviceProperties (Sdk_version)
    appProperties,     \* AndroidApp.appProperties
    heap,              \* backing arrays of the []string slices of a module
    fields,            \* AndroidApp fields: aaptJavaFileList, exportPackage, outputFile
    pc,                \* position of each module's GenerateAndroidBuildActions
    frame,             \* its local variables
    calls,             \* what was handed to the external collaborators
    log,               \* the collaborators called in the current evaluation
    evals,             \* number of evaluations started per module
    hist               \* properties at entry, and results of earlier evaluations

vars == <<config, fs, graph, name, deps, properties, deviceProperties, appProperties,
          heap, fields, pc, frame, calls, log, evals, hist>>

\* ---------------------------------------------------------------- bounds
MaxFlags == 2      \* longest Aaptflags list
MaxSpare == 8      \* largest spare capacity of the Aaptflags backing array
MaxDeps == 2       \* longest direct dependency list
MaxCerts == 2      \* longest Additional_certificates list
MaxEvals == 2      \* evaluations of one module object

DepModule == "dep"     \* the module other modules may depend on
AppModule == "app"     \* the application under study
Modules == {DepModule, AppModule}

\* ---------------------------------------------------------------- strings
EmptyStr == <<>>
SP == <<" ">>
SEP == "/"

HasPrefix(s, prefix) ==
    /\ Len(s) >= Len(prefix)
    /\ SubSeq(s, 1, Len(prefix)) = prefix

RECURSIVE SeqsUpTo(_, _)
\* all sequences over S of length at most n
SeqsUpTo(S, n) ==
    IF n = 0 THEN {<<>>}
    ELSE LET shorter == SeqsUpTo(S, n - 1)
         IN shorter \cup {Append(q, x) : q \in {r \in shorter : Len(r) = n - 1}, x \in S}

Range(q) == {q[i] : i \in 1..Len(q)}

RECURSIVE Flatten(_)
Flatten(qs) == IF qs = <<>> THEN <<>> ELSE Head(qs) \o Flatten(Tail(qs))

\* ---------------------------------------------------------------- paths
RECURSIVE SplitSegs(_, _)
\* the segments of path p between separators; cur is the segment being read
SplitSegs(p, cur) ==
    IF p = <<>> THEN <<cur>>
    ELSE IF Head(p) = SEP THEN <<cur>> \o SplitSegs(Tail(p), <<>>)
    ELSE SplitSegs(Tail(p), Append(cur, Head(p)))

RECURSIVE CleanSegs(_, _, _)
\* filepath.Clean's pass over the segments, out being the kept ones
CleanSegs(segs, out, rooted) ==
    IF segs = <<>> THEN out
    ELSE LET s == Head(segs) rest == Tail(segs) IN
         IF s = <<>> \/ s = <<".">> THEN CleanSegs(rest, out, rooted)
         ELSE IF s = <<"..">> THEN
              IF out # <<>> /\ out[Len(out)] # <<"..">>
                  THEN CleanSegs(rest, SubSeq(out, 1, Len(out) - 1), rooted)
              ELSE IF rooted THEN CleanSegs(rest, out, rooted)
              ELSE CleanSegs(rest, Append(out, s), rooted)
         ELSE CleanSegs(rest, Append(out, s), rooted)

RECURSIVE JoinSegs(_)
JoinSegs(segs) ==
    IF segs = <<>> THEN <<>>
    ELSE IF Len(segs) = 1 THEN segs[1]
    ELSE segs[1] \o <<SEP>> \o JoinSegs(Tail(segs))

Clean(p) ==
    LET rooted == p # <<>> /\ p[1] = SEP
        kept == CleanSegs(SplitSegs(p, <<>>), <<>>, rooted)
        body == JoinSegs(kept)
    IN IF rooted THEN <<SEP>> \o body
       ELSE IF body = <<>> THEN <<".">>
       ELSE body

\* filepath.Join: the non-empty elements joined by the separator, cleaned
FilepathJoin(elems) ==
    LET nonEmpty == SelectSeq(elems, LAMBDA e : e # <<>>)
    IN IF nonEmpty = <<>> THEN <<>> ELSE Clean(JoinSegs(nonEmpty))

\* filepath.Split: everything up to and including the last separator
SplitDir(p) ==
    LET idx == {i \in 1..Len(p) : p[i] = SEP}
    IN IF idx = {} THEN <<>>
       ELSE SubSeq(p, 1, CHOOSE i \in idx : \A j \in idx : j <= i)

\* ---------------------------------------------------------------- slices
\* A slice is [arr, len]: arr indexes the module's heap (0 for the nil slice),
\* whose entry is the backing array, as long as the slice's capacity.
NilSlice == [arr |-> 0, len |-> 0]

Cap(h, s) == IF s.arr = 0 THEN 0 ELSE Len(h[s.arr])

Content(h, s) == IF s.arr = 0 THEN <<>> ELSE SubSeq(h[s.arr], 1, s.len)

\* capacity append chooses when it has to reallocate (small slices)
GrowCap(oldCap, needed) == IF needed > 2 * oldCap THEN needed ELSE 2 * oldCap

\* the array append(s, xs...) allocates when s has no room for xs
FreshArray(old, xs) ==
    old \o xs \o [i \in 1..(GrowCap(Len(old), Len(old) + Len(xs)) - Len(old) - Len(xs))
                    |-> EmptyStr]

\* append(r.slice, xs...) on heap r.heap: in place when the capacity allows,
\* else into a new array; the result replaces r.heap and r.slice
GoAppend(r, xs) ==
    IF xs = <<>> THEN r
    ELSE IF r.slice.len + Len(xs) <= Cap(r.heap, r.slice) THEN
        [r EXCEPT !.heap[r.slice.arr] =
                      [i \in 1..Len(@) |->
                          IF i > r.slice.len /\ i <= r.slice.len + Len(xs)
                              THEN xs[i - r.slice.len] ELSE @[i]],
                  !.slice.len = @ + Len(xs)]
    ELSE
        [r EXCEPT !.heap = Append(@, FreshArray(Content(r.heap, r.slice), xs)),
                  !.slice = [arr |-> Len(r.heap) + 1, len |-> @.len + Len(xs)]]

\* append([]string(nil), s...): a copy of s in an array of its own
CopySliceAliased(h, s) == [heap |-> h, slice |-> s]

CopySlice(h, s) == GoAppend([heap |-> h, slice |-> NilSlice], Content(h, s))

\* ---------------------------------------------------------------- context
ModuleDir(m) == <<m>>

\* android.PathForSource(ctx).String(): the source root
PathForSource == config.srcDir

\* android.PathForModuleSrc(ctx, p).String()
ModSrc(srcDir, m, p) == FilepathJoin(<<srcDir, ModuleDir(m), p>>)

PathForModuleSrc(m, p) == ModSrc(config.srcDir, m, p)

\* ctx.Glob(filepath.Join(d, "**/*"), aaptIgnoreFilenames): the files under d
\* that the ignore list lets through
Glob(d) == IF d \in fs.nonEmpty THEN <<FilepathJoin(<<d, <<"values.xml">>>>)>> ELSE <<>>

\* android.PathsWithOptionalDefaultForModuleSrc(ctx, input, def)
PathsWithOptionalDefaultForModuleSrc(m, input, def) ==
    IF Len(input) > 0 THEN [i \in 1..Len(input) |-> PathForModuleSrc(m, input[i])]
    ELSE IF PathForModuleSrc(m, def) \in fs.dirs THEN <<PathForModuleSrc(m, def)>>
    ELSE <<>>

\* overlayDir.OverlayPath(ctx, resourceDir): an optional path, <<>> when invalid
OverlayPath(overlayDir, resourceDir) ==
    LET p == FilepathJoin(<<overlayDir, resourceDir>>)
    IN IF p \in fs.dirs THEN <<p>> ELSE <<>>

RECURSIVE JoinWithPrefix(_, _)
\* android.JoinWithPrefix(strs, prefix): one token, "" for an empty list
JoinWithPrefix(strs, prefix) ==
    IF strs = <<>> THEN EmptyStr
    ELSE IF Len(strs) = 1 THEN prefix \o strs[1]
    ELSE prefix \o strs[1] \o SP \o JoinWithPrefix(Tail(strs), prefix)

\* ---------------------------------------------------------------- aaptFlags
VersionCodeOpt == <<"--version-", "code">>
VersionNameOpt == <<"--version-", "name">>
ProductOpt == <<"--product">>
FrameworkRes == "framework-res"

HasVersionCodeNever(flags) == FALSE

\* lines 170-178: hasVersionCode after the scan of the explicit flags
HasVersionCode(flags) == \E i \in 1..Len(flags) : HasPrefix(flags[i], VersionCodeOpt)

\* lines 170-178: hasVersionName, set only in the else branch
HasVersionName(flags) ==
    \E i \in 1..Len(flags) :
        /\ ~HasPrefix(flags[i], VersionCodeOpt)
        /\ HasPrefix(flags[i], VersionNameOpt)

AssetDirs(m) ==
    PathsWithOptionalDefaultForModuleSrc(m, appProperties[m].Asset_dirs, <<"assets">>)

BaseResourceDirs(m) ==
    PathsWithOptionalDefaultForModuleSrc(m, appProperties[m].Android_resource_dirs, <<"res">>)

\* lines 187-197: the valid overlays, overlay root by overlay root
OverlayResourceDirs(m) ==
    LET base == BaseResourceDirs(m)
        roots == config.ResourceOverlays
    IN Flatten([o \in 1..Len(roots) |->
           Flatten([r \in 1..Len(base) |-> OverlayPath(roots[o], base[r])])])

ResourceDirsBaseFirst(m) == BaseResourceDirs(m) \o OverlayResourceDirs(m)

\* lines 199-201
ResourceDirs(m) ==
    IF Len(OverlayResourceDirs(m)) > 0
        THEN OverlayResourceDirs(m) \o BaseResourceDirs(m)
        ELSE BaseResourceDirs(m)

GlobAll(dirs) == Flatten([i \in 1..Len(dirs) |-> Glob(dirs[i])])

HasResourcesOrAssets(m) ==
    \E d \in Range(ResourceDirs(m)) \cup Range(AssetDirs(m)) : Len(Glob(d)) > 0

\* lines 206-213
HasResources(m) == \E d \in Range(ResourceDirs(m)) : Len(Glob(d)) > 0

\* lines 219-226
ManifestPath(m) ==
    PathForModuleSrc(m, IF properties[m].Manifest = <<>>
                            THEN <<"AndroidManifest.xml">>
                            ELSE properties[m].Manifest[1])

\* lines 205-227: aaptDeps before the dependencies are visited
LocalDeps(m) == GlobAll(ResourceDirs(m)) \o GlobAll(AssetDirs(m)) \o <<ManifestPath(m)>>

\* lines 234-241: the files one dependency contributes; panic when the code
\* dereferences a nil export package or asserts a wrong type
DepFiles(d) ==
    IF d.kind = "sdk" THEN [panic |-> FALSE, files |-> d.classpath]
    ELSE IF d.kind \in {"app", "lib"} THEN
        IF (IF d.kind = "app" THEN name[d.module] ELSE d.name) = FrameworkRes THEN
            IF d.kind # "app" THEN [panic |-> TRUE, files |-> <<>>]
            ELSE IF fields[d.module].exportPackage = <<>>
                THEN [panic |-> TRUE, files |-> <<>>]
            ELSE [panic |-> FALSE, files |-> fields[d.module].exportPackage]
        ELSE [panic |-> FALSE, files |-> <<>>]
    ELSE [panic |-> FALSE, files |-> <<>>]

RECURSIVE AppendEach(_, _)
\* one append call per element of xs
AppendEach(r, xs) ==
    IF xs = <<>> THEN r ELSE AppendEach(GoAppend(r, <<Head(xs)>>), Tail(xs))

\* lines 243-246: the flags and dependency files of one dependency
AddDepFiles(r, files) ==
    [AppendEach(r, [i \in 1..Len(files) |-> <<"-I", " ">> \o files[i]])
        EXCEPT !.deps = @ \o files]

RECURSIVE VisitDirectDeps(_, _)
\* lines 233-247: r is [heap, slice, deps, panic]
VisitDirectDeps(ds, r) ==
    IF ds = <<>> THEN r
    ELSE IF DepFiles(Head(ds)).panic THEN [r EXCEPT !.panic = TRUE]
    ELSE VisitDirectDeps(Tail(ds), AddDepFiles(r, DepFiles(Head(ds)).files))

SdkVersionPlatformOnly(m) == config.PlatformSdkVersion

\* lines 249-252
SdkVersion(m) ==
    IF deviceProperties[m].Sdk_version = EmptyStr
        THEN config.PlatformSdkVersion
        ELSE deviceProperties[m].Sdk_version

\* lines 254-264: the SDK and version flags
VersionFlags(m, explicit) ==
    << <<"--min-sdk-version", " ">> \o SdkVersion(m) >> \o
    << <<"--target-sdk-version", " ">> \o SdkVersion(m) >> \o
    (IF ~HasVersionCode(explicit)
        THEN << VersionCodeOpt \o SP \o config.PlatformSdkVersion >> ELSE <<>>) \o
    (IF ~HasVersionName(explicit)
        THEN << VersionNameOpt \o SP \o config.PlatformVersion
                    \o <<"-">> \o config.BuildNumber >>
        ELSE <<>>)

\* lines 180-231: the flags up to the resource directories
LocalFlags(m) ==
    << <<"-z">>,
       <<"-M", " ">> \o ManifestPath(m),
       JoinWithPrefix(AssetDirs(m), <<"-A", " ">>),
       JoinWithPrefix(ResourceDirs(m), <<"-S", " ">>) >>

\* line 272, or the panic that ends the evaluation
Returned(m, r) ==
    IF r.panic
        THEN [panic |-> TRUE, heap |-> r.heap, aaptFlags |-> NilSlice,
              aaptDeps |-> <<>>, hasResources |-> FALSE]
        ELSE [panic |-> FALSE, heap |-> r.heap, aaptFlags |-> r.slice,
              aaptDeps |-> r.deps, hasResources |-> HasResources(m)]

\* lines 254-264 on the state the visit left, unless it panicked
AfterVisit(m, v) ==
    IF v.panic THEN v
    ELSE AppendEach(v, VersionFlags(m, Content(heap[m], appProperties[m].Aaptflags)))

\* lines 168-273: [panic, heap, aaptFlags, aaptDeps, hasResources]
aaptFlags(m) ==
    Returned(m,
        AfterVisit(m,
            VisitDirectDeps(deps[m],
                AppendEach([heap |-> heap[m], slice |-> appProperties[m].Aaptflags,
                            deps |-> LocalDeps(m), panic |-> FALSE],
                           LocalFlags(m)))))

\* ------------------------------------------- GenerateAndroidBuildActions
HasProduct(flags) == \E i \in 1..Len(flags) : HasPrefix(flags[i], ProductOpt)

\* lines 94-106 and 124-136: a copy of the base flags, with the computed
\* --product appended when the copy holds no --product token
AppendProduct(c) ==
    IF HasProduct(Content(c.heap, c.slice)) THEN c
    ELSE GoAppend(c, << ProductOpt \o SP \o config.ProductAaptCharacteristics >>)

PackageFlags(h, base) == AppendProduct(CopySlice(h, base))

PrimaryCertificateSourceOnly(spec) ==
    IF spec = EmptyStr THEN config.DefaultAppCertificate
    ELSE FilepathJoin(<<PathForSource, spec>>)

\* lines 138-145
PrimaryCertificate(spec) ==
    IF spec = EmptyStr THEN config.DefaultAppCertificate
    ELSE IF SplitDir(spec) = EmptyStr
        THEN FilepathJoin(<<config.DefaultAppCertificateDir, spec>>)
    ELSE FilepathJoin(<<PathForSource, spec>>)

\* lines 147-150
Certificates(m) ==
    <<PrimaryCertificate(appProperties[m].Certificate)>> \o
    [i \in 1..Len(appProperties[m].Additional_certificates) |->
        FilepathJoin(<<PathForSource, appProperties[m].Additional_certificates[i]>>)]

PathForModuleOut(m, f) == FilepathJoin(<<<<"out">>, ModuleDir(m), f>>)

\* the configuration of module m as an observer sees it
Snapshot(m) ==
    [Aaptflags |-> Content(heap[m], appProperties[m].Aaptflags),
     Asset_dirs |-> appProperties[m].Asset_dirs,
     Android_resource_dirs |-> appProperties[m].Android_resource_dirs,
     Certificate |-> appProperties[m].Certificate,
     Additional_certificates |-> appProperties[m].Additional_certificates,
     Export_package_resources |-> appProperties[m].Export_package_resources,
     Manifest |-> properties[m].Manifest,
     Sdk_version |-> deviceProperties[m].Sdk_version]

Idle(m) == pc[m] \in {"idle", "installed", "panic"}

\* the graph walker: one evaluation at a time, dependencies first
Scheduled(m) ==
    /\ m \in graph
    /\ pc[m] \in {"idle", "installed"}
    /\ evals[m] < MaxEvals
    /\ \A o \in graph \ {m} : Idle(o)
    /\ \A i \in 1..Len(deps[m]) :
          deps[m][i].kind = "app" => pc[deps[m][i].module] = "installed"

NoCalls == [rjava |-> <<>>, export |-> <<>>, app |-> <<>>, install |-> <<>>]

\* line 82: entry, and the call of aaptFlags
ComputeFlags(m) ==
    /\ Scheduled(m)
    /\ \E r \in {aaptFlags(m)} :
        /\ heap' = [heap EXCEPT ![m] = r.heap]
        /\ frame' = [frame EXCEPT ![m] =
                        [aaptFlags |-> r.aaptFlags, aaptDeps |-> r.aaptDeps,
                         hasResources |-> r.hasResources,
                         assetDirs |-> AssetDirs(m), resourceDirs |-> ResourceDirs(m),
                         baseSeen |-> <<>>]]
        /\ pc' = [pc EXCEPT ![m] = IF r.panic THEN "panic" ELSE "flags"]
        /\ hist' = [hist EXCEPT ![m] =
                        [first |-> @.first,
                         entry |-> Snapshot(m),
                         runs |-> IF r.panic THEN @.runs
                                  ELSE Append(@.runs,
                                         [flags |-> Content(r.heap, r.aaptFlags),
                                          deps |-> r.aaptDeps])]]
    /\ evals' = [evals EXCEPT ![m] = @ + 1]
    /\ calls' = [calls EXCEPT ![m] = NoCalls]
    /\ log' = [log EXCEPT ![m] = <<"aaptFlags">>]
    /\ UNCHANGED <<config, fs, graph, name, deps, properties, deviceProperties,
                   appProperties, fields>>

\* lines 84-91
ResourceJavaFiles(m) ==
    /\ pc[m] = "flags"
    /\ frame[m].hasResources
    /\ \E c \in {CopySlice(heap[m], frame[m].aaptFlags)} :
        /\ heap' = [heap EXCEPT ![m] = c.heap]
        /\ calls' = [calls EXCEPT ![m].rjava =
                        <<[flags |-> c.slice, deps |-> frame[m].aaptDeps]>>]
    /\ frame' = [frame EXCEPT ![m].baseSeen =
                    Append(@, Content(heap[m], frame[m].aaptFlags))]
    /\ fields' = [fields EXCEPT ![m].aaptJavaFileList =
                    <<PathForModuleOut(m, <<"R.java.list">>)>>]
    /\ pc' = [pc EXCEPT ![m] = "rjava"]
    /\ log' = [log EXCEPT ![m] = Append(@, "CreateResourceJavaFiles")]
    /\ UNCHANGED <<config, fs, graph, name, deps, properties, deviceProperties,
                   appProperties, evals, hist>>

\* lines 93-112, Export_package_resources set
ExportPackage(m) ==
    /\ pc[m] = "rjava"
    /\ appProperties[m].Export_package_resources
    /\ \E c \in {PackageFlags(heap[m], frame[m].aaptFlags)} :
        /\ heap' = [heap EXCEPT ![m] = c.heap]
        /\ calls' = [calls EXCEPT ![m].export =
                        <<[flags |-> c.slice, deps |-> frame[m].aaptDeps]>>]
    /\ frame' = [frame EXCEPT ![m].baseSeen =
                    Append(@, Content(heap[m], frame[m].aaptFlags))]
    /\ fields' = [fields EXCEPT ![m].exportPackage =
                    <<PathForModuleOut(m, <<"package-export.apk">>)>>]
    /\ pc' = [pc EXCEPT ![m] = "resources"]
    /\ log' = [log EXCEPT ![m] = Append(@, "CreateExportPackage")]
    /\ UNCHANGED <<config, fs, graph, name, deps, properties, deviceProperties,
                   appProperties, evals, hist>>

\* lines 93-112, Export_package_resources not set
SkipExport(m) ==
    /\ pc[m] = "rjava"
    /\ ~appProperties[m].Export_package_resources
    /\ pc' = [pc EXCEPT ![m] = "resources"]
    /\ UNCHANGED <<config, fs, graph, name, deps, properties, deviceProperties,
                   appProperties, heap, fields, frame, calls, log, evals, hist>>

KeepManifest(p) == p

\* lines 115-116: apps manifests are handled by aapt, Module must not see them
ClearManifest(p) == [p EXCEPT !.Manifest = <<>>]

\* lines 115-122
Compile(m) ==
    /\ \/ pc[m] = "resources"
       \/ pc[m] = "flags" /\ ~frame[m].hasResources
    /\ properties' = [properties EXCEPT ![m] = ClearManifest(@)]
    /\ fields' = [fields EXCEPT ![m].outputFile =
                    <<PathForModuleOut(m, <<"classes.jar">>)>>]
    /\ pc' = [pc EXCEPT ![m] = "compiled"]
    /\ log' = [log EXCEPT ![m] = Append(@, "compile")]
    /\ UNCHANGED <<config, fs, graph, name, deps, deviceProperties,
                   appProperties, heap, frame, calls, evals, hist>>

\* lines 124-152
AppPackage(m) ==
    /\ pc[m] = "compiled"
    /\ \E c \in {PackageFlags(heap[m], frame[m].aaptFlags)} :
        /\ heap' = [heap EXCEPT ![m] = c.heap]
        /\ calls' = [calls EXCEPT ![m].app =
                        <<[flags |-> c.slice, deps |-> <<>>,
                           jarFile |-> fields[m].outputFile,
                           certificates |-> Certificates(m)]>>]
    /\ frame' = [frame EXCEPT ![m].baseSeen =
                    Append(@, Content(heap[m], frame[m].aaptFlags))]
    /\ fields' = [fields EXCEPT ![m].outputFile =
                    <<PathForModuleOut(m, <<"package.apk">>)>>]
    /\ pc' = [pc EXCEPT ![m] = "packaged"]
    /\ log' = [log EXCEPT ![m] = Append(@, "CreateAppPackage")]
    /\ UNCHANGED <<config, fs, graph, name, deps, properties, deviceProperties,
                   appProperties, evals, hist>>

\* line 153
Install(m) ==
    /\ pc[m] = "packaged"
    /\ calls' = [calls EXCEPT ![m].install =
                    <<[dir |-> <<"app">>, name |-> <<name[m], ".apk">>,
                       file |-> fields[m].outputFile]>>]
    /\ pc' = [pc EXCEPT ![m] = "installed"]
    /\ log' = [log EXCEPT ![m] = Append(@, "InstallFileName")]
    /\ UNCHANGED <<config, fs, graph, name, deps, properties, deviceProperties,
                   appProperties, heap, fields, frame, evals, hist>>

\* ---------------------------------------------------------------- inputs
FlagTokens ==
    { VersionCodeOpt \o <<" ", "7">>,
      VersionCodeOpt \o <<"s">>,
      VersionNameOpt \o <<" ", "beta">>,
      ProductOpt \o <<" ", "tablet">>,
      <<"--version-">> }

CertSpecs ==
    { EmptyStr, <<"platform">>, <<"keys", "/", "foo.pk8">>, <<"/", "abs", "/", "key">>,
      <<".", "/", "local">>, <<"dir", "/">> }

ExtraCerts == { <<"media">>, <<"keys", "/", "extra">>, <<"..", "/", "shared">> }

Overlay1 == <<"vendor", "/", "overlay">>
Overlay2 == <<"device", "/", "overlay">>

SdkDep == [kind |-> "sdk", name |-> "sdk_v21", module |-> "",
           classpath |-> << <<"prebuilts", "/", "sdk", "/", "android.jar">>,
                            <<"prebuilts", "/", "sdk", "/", "uiautomator.jar">> >>]
AppDep == [kind |-> "app", name |-> "", module |-> DepModule, classpath |-> <<>>]
LibDep == [kind |-> "lib", name |-> "core", module |-> "", classpath |-> <<>>]
OtherDep == [kind |-> "other", name |-> "libc", module |-> "", classpath |-> <<>>]
Sdk2Dep == [kind |-> "sdk", name |-> "sdk_support", module |-> "",
            classpath |-> << <<"prebuilts", "/", "sdk", "/", "support.jar">> >>]
DepUniverse == {SdkDep, Sdk2Dep, AppDep, LibDep, OtherDep}

\* direct dependency lists: distinct modules, at most MaxDeps of them
DepLists ==
    {q \in SeqsUpTo(DepUniverse, MaxDeps) : \A i, j \in 1..Len(q) : i # j => q[i] # q[j]}

Baseline ==
    [flags |-> <<>>, spare |-> 0, manifest |-> <<>>, sdk |-> EmptyStr,
     assetDirs |-> <<>>, resDirs |-> <<>>, overlays |-> <<>>,
     defaults |-> TRUE, existing |-> {}, nonEmpty |-> {"res"},
     deps |-> <<>>, export |-> FALSE,
     cert |-> EmptyStr, addCerts |-> <<>>, srcDir |-> <<".">>,
     graph |-> {AppModule}, depName |-> FrameworkRes, depExport |-> TRUE,
     depHasRes |-> TRUE]

FlagInputs ==
    {[Baseline EXCEPT !.flags = f, !.spare = c, !.export = e, !.manifest = mf] :
        f \in SeqsUpTo(FlagTokens, MaxFlags), c \in {0, 1, MaxSpare}, e \in BOOLEAN,
        mf \in {<<>>, << <<"Manifest.xml">> >>}}

DirInputs ==
    {[Baseline EXCEPT !.resDirs = r, !.assetDirs = a, !.overlays = o,
                      !.defaults = d, !.existing = x, !.nonEmpty = n,
                      !.export = TRUE] :
        r \in {<<>>, << <<"r1">> >>, << <<"r1">>, <<"r2">> >>},
        a \in {<<>>, << <<"a1">> >>},
        o \in {<<>>, <<Overlay1>>, <<Overlay1, Overlay2>>, <<Overlay2, Overlay1>>},
        d \in BOOLEAN,
        x \in SUBSET {"o1/r1", "o2/r1", "o1/r2"},
        n \in SUBSET {"r1", "o1/r1", "assets"}}

DepInputs ==
    {[Baseline EXCEPT !.deps = q, !.sdk = v, !.graph = Modules,
                      !.depName = dn, !.depExport = de, !.depHasRes = dr] :
        q \in {l \in DepLists : \E i \in 1..Len(l) : l[i] = AppDep},
        v \in {EmptyStr, <<"21">>},
        dn \in {FrameworkRes, "SettingsLib"}, de \in BOOLEAN, dr \in BOOLEAN}
    \cup
    {[Baseline EXCEPT !.deps = q, !.sdk = v] :
        q \in {l \in DepLists : \A i \in 1..Len(l) : l[i] # AppDep},
        v \in {EmptyStr, <<"21">>}}

CertInputs ==
    {[Baseline EXCEPT !.cert = c, !.addCerts = a, !.srcDir = sd] :
        c \in CertSpecs, a \in SeqsUpTo(ExtraCerts, MaxCerts),
        sd \in {<<".">>, <<"/", "src">>}}

Inputs == FlagInputs \cup DirInputs \cup DepInputs \cup CertInputs

\* the directories of the source tree an input describes
DirsOf(in, tag) ==
    CASE tag = "res" -> ModSrc(in.srcDir, AppModule, <<"res">>)
      [] tag = "assets" -> IF in.assetDirs = <<>>
                              THEN ModSrc(in.srcDir, AppModule, <<"assets">>)
                              ELSE ModSrc(in.srcDir, AppModule, <<"a1">>)
      [] tag = "r1" -> ModSrc(in.srcDir, AppModule, <<"r1">>)
      [] tag = "o1/r1" -> FilepathJoin(<<Overlay1, ModSrc(in.srcDir, AppModule, <<"r1">>)>>)
      [] tag = "o2/r1" -> FilepathJoin(<<Overlay2, ModSrc(in.srcDir, AppModule, <<"r1">>)>>)
      [] tag = "o1/r2" -> FilepathJoin(<<Overlay1, ModSrc(in.srcDir, AppModule, <<"r2">>)>>)

InitFs(in) ==
    LET defaults == IF in.defaults
                       THEN {ModSrc(in.srcDir, AppModule, <<"res">>),
                             ModSrc(in.srcDir, AppModule, <<"assets">>)}
                       ELSE {}
        explicit == {ModSrc(in.srcDir, AppModule, d) :
                        d \in Range(in.resDirs) \cup Range(in.assetDirs)}
        overlaid == {DirsOf(in, t) : t \in in.existing}
        depDirs == {ModSrc(in.srcDir, DepModule, <<"res">>)}
        dirs == defaults \cup explicit \cup overlaid \cup depDirs
    IN [dirs |-> dirs,
        nonEmpty |-> ({DirsOf(in, t) : t \in in.nonEmpty} \cap dirs)
                     \cup (IF in.depHasRes THEN depDirs ELSE {})]

InitWith(in) ==
    /\ config = [srcDir |-> in.srcDir,
                 PlatformSdkVersion |-> <<"26">>,
                 PlatformVersion |-> <<"8.0">>,
                 BuildNumber |-> <<"eng.4242">>,
                 ProductAaptCharacteristics |-> <<"nosdcard">>,
                 DefaultAppCertificate |->
                     FilepathJoin(<<in.srcDir, <<"build", "/", "security", "/", "testkey">>>>),
                 DefaultAppCertificateDir |->
                     FilepathJoin(<<in.srcDir, <<"build", "/", "security">>>>),
                 ResourceOverlays |-> in.overlays]
    /\ fs = InitFs(in)
    /\ graph = in.graph
    /\ name = [m \in Modules |-> IF m = DepModule THEN in.depName ELSE "Settings"]
    /\ deps = [m \in Modules |-> IF m = AppModule THEN in.deps ELSE <<>>]
    /\ properties = [m \in Modules |->
                        [Manifest |-> IF m = AppModule THEN in.manifest ELSE <<>>]]
    /\ deviceProperties = [m \in Modules |->
                        [Sdk_version |-> IF m = AppModule THEN in.sdk ELSE EmptyStr]]
    /\ appProperties = [m \in Modules |->
            IF m = AppModule
            THEN [Certificate |-> in.cert,
                  Additional_certificates |-> in.addCerts,
                  Export_package_resources |-> in.export,
                  Aaptflags |-> IF in.flags = <<>> /\ in.spare = 0 THEN NilSlice
                                ELSE [arr |-> 1, len |-> Len(in.flags)],
                  Asset_dirs |-> in.assetDirs,
                  Android_resource_dirs |-> in.resDirs]
            ELSE [Certificate |-> EmptyStr,
                  Additional_certificates |-> <<>>,
                  Export_package_resources |-> in.depExport,
                  Aaptflags |-> NilSlice,
                  Asset_dirs |-> <<>>,
                  Android_resource_dirs |-> <<>>]]
    /\ heap = [m \in Modules |->
            IF m = AppModule /\ ~(in.flags = <<>> /\ in.spare = 0)
            THEN << in.flags \o [i \in 1..in.spare |-> EmptyStr] >>
            ELSE <<>>]
    /\ fields = [m \in Modules |->
            [aaptJavaFileList |-> <<>>, exportPackage |-> <<>>, outputFile |-> <<>>]]
    /\ pc = [m \in Modules |-> "idle"]
    /\ frame = [m \in Modules |->
            [aaptFlags |-> NilSlice, aaptDeps |-> <<>>, hasResources |-> FALSE,
             assetDirs |-> <<>>, resourceDirs |-> <<>>, baseSeen |-> <<>>]]
    /\ calls = [m \in Modules |-> NoCalls]
    /\ log = [m \in Modules |-> <<>>]
    /\ evals = [m \in Modules |-> 0]
    /\ hist = [m \in Modules |->
            [first |-> Snapshot(m), entry |-> Snapshot(m), runs |-> <<>>]]

Init == \E in \in Inputs : InitWith(in)

Next ==
    \E m \in Modules :
        \/ ComputeFlags(m)
        \/ ResourceJavaFiles(m)
        \/ ExportPackage(m)
        \/ SkipExport(m)
        \/ Compile(m)
        \/ AppPackage(m)
        \/ Install(m)

Spec == Init /\ [][Next]_vars

\* ---------------------------------------------------------------- properties
\* the evaluation of m got past aaptFlags, which returned
FlagsReturned(m) == pc[m] \in {"flags", "rjava", "resources", "compiled", "packaged", "installed"}

\* the base sequence aaptFlags returned to the current evaluation of m
Base(m) == Content(heap[m], frame[m].aaptFlags)

\* the explicit flags the current evaluation of m started from
Explicit(m) == hist[m].entry.Aaptflags

FlagsOf(m, call) == Content(heap[m], call.flags)

Positions(flags, opt) == {i \in 1..Len(flags) : HasPrefix(flags[i], opt)}

ComputedVersionCode == VersionCodeOpt \o SP \o config.PlatformSdkVersion
ComputedVersionName ==
    VersionNameOpt \o SP \o config.PlatformVersion \o <<"-">> \o config.BuildNumber
ComputedProduct == ProductOpt \o SP \o config.ProductAaptCharacteristics

\* an explicit token for opt keeps the computed one out; without one, exactly
\* one computed token, the given one, is in flags, after the explicit flags
ExplicitWins(explicit, flags, opt, computed) ==
    LET given == Positions(explicit, opt)
        found == Positions(flags, opt)
    IN IF given # {}
          THEN found = given /\ \A i \in found : flags[i] = explicit[i]
          ELSE /\ Cardinality(found) = 1
               /\ \A i \in found : flags[i] = computed /\ i > Len(explicit)

\* a packaging invocation's flags are the base, plus the computed --product
\* exactly when the base holds no --product token
ProductWhenAbsent(base, flags) ==
    IF Positions(base, ProductOpt) # {}
        THEN flags = base
        ELSE flags = Append(base, ComputedProduct)

\* C1: explicit-flag precedence. An explicit --version-code (--version-name)
\* token keeps the computed one out of the flags aaptFlags returns, and
\* without one exactly one computed token is appended; the export-package and
\* the main-package flags get the computed --product exactly when their own
\* copy of the flags holds no --product token.
C1_ExplicitFlagPrecedence ==
    \A m \in Modules : FlagsReturned(m) =>
        LET base == Base(m) IN
        /\ ExplicitWins(Explicit(m), base, VersionCodeOpt, ComputedVersionCode)
        /\ ExplicitWins(Explicit(m), base, VersionNameOpt, ComputedVersionName)
        /\ SubSeq(base, 1, Len(Explicit(m))) = Explicit(m)
        /\ \A i \in 1..Len(calls[m].export) :
              ProductWhenAbsent(base, FlagsOf(m, calls[m].export[i]))
        /\ \A i \in 1..Len(calls[m].app) :
              ProductWhenAbsent(base, FlagsOf(m, calls[m].app[i]))

C1_Witness ==
    \E m \in Modules :
        /\ pc[m] = "installed"
        /\ calls[m].export # <<>>
        /\ Positions(Explicit(m), VersionCodeOpt) # {}
        /\ Positions(Explicit(m), VersionNameOpt) = {}
        /\ Positions(Explicit(m), ProductOpt) # {}

\* the (overlay root, base directory) index pairs whose overlay path exists
ExistingOverlays(base) ==
    {p \in (1..Len(config.ResourceOverlays)) \X (1..Len(base)) :
        FilepathJoin(<<config.ResourceOverlays[p[1]], base[p[2]]>>) \in fs.dirs}

\* root by root in configuration order, within a root in base-directory order
OverlayBefore(p, q) == p[1] < q[1] \/ (p[1] = q[1] /\ p[2] < q[2])

OverlayRank(p, existing) ==
    1 + Cardinality({q \in existing : OverlayBefore(q, p)})

\* resolved is every existing overlay path in that order, then the base list
OverlaysThenBase(resolved, base) ==
    LET existing == ExistingOverlays(base)
        n == Cardinality(existing)
    IN /\ Len(resolved) = n + Len(base)
       /\ SubSeq(resolved, n + 1, Len(resolved)) = base
       /\ \A p \in existing :
             /\ resolved[OverlayRank(p, existing)] =
                   FilepathJoin(<<config.ResourceOverlays[p[1]], base[p[2]]>>)
             /\ OverlayRank(p, existing) < n + p[2]
       /\ (n = 0 => resolved = base)

\* C2: overlay precedence. The resolved resource directories are all existing
\* overlay paths (overlay root by overlay root, within a root in base order)
\* followed by the base list, so every overlay precedes its base directory;
\* the asset directories are the base asset list, with no overlay entry.
C2_OverlayPrecedence ==
    \A m \in Modules : FlagsReturned(m) =>
        /\ OverlaysThenBase(frame[m].resourceDirs, BaseResourceDirs(m))
        /\ frame[m].assetDirs =
              PathsWithOptionalDefaultForModuleSrc(m, appProperties[m].Asset_dirs,
                                                   <<"assets">>)
        /\ \A i \in 1..Len(frame[m].assetDirs), o \in 1..Len(config.ResourceOverlays) :
              ~HasPrefix(frame[m].assetDirs[i], config.ResourceOverlays[o])
        /\ JoinWithPrefix(frame[m].resourceDirs, <<"-S", " ">>) \in Range(Base(m))

C2_Witness ==
    \E m \in Modules :
        /\ FlagsReturned(m)
        /\ Len(config.ResourceOverlays) = 2
        /\ Len(BaseResourceDirs(m)) = 2
        /\ Cardinality(ExistingOverlays(BaseResourceDirs(m))) = 3
        /\ config.ResourceOverlays[1] = Overlay2

\* C3: has-resources gating. hasResources is true exactly when the glob of
\* some resolved resource directory finds a file (asset files do not count);
\* without resources there is no R-file generation and no export-package
\* invocation, and the manifest is still in the dependency-file set.
C3_HasResourcesGating ==
    \A m \in Modules : FlagsReturned(m) =>
        /\ frame[m].hasResources <=>
              \E i \in 1..Len(frame[m].resourceDirs) :
                  Glob(frame[m].resourceDirs[i]) # <<>>
        /\ ~frame[m].hasResources =>
              /\ calls[m].rjava = <<>>
              /\ calls[m].export = <<>>
              /\ \A i \in 1..Len(log[m]) :
                    log[m][i] \notin {"CreateResourceJavaFiles", "CreateExportPackage"}
              /\ fields[m].exportPackage = <<>>
              /\ fields[m].aaptJavaFileList = <<>>
        /\ \E i \in 1..Len(frame[m].aaptDeps) :
              frame[m].aaptDeps[i] =
                  PathForModuleSrc(m, IF hist[m].entry.Manifest = <<>>
                                          THEN <<"AndroidManifest.xml">>
                                          ELSE hist[m].entry.Manifest[1])

C3_Witness ==
    \E m \in Modules :
        /\ pc[m] = "installed"
        /\ ~frame[m].hasResources
        /\ appProperties[m].Export_package_resources
        /\ \E i \in 1..Len(frame[m].assetDirs) : Glob(frame[m].assetDirs[i]) # <<>>
        /\ frame[m].resourceDirs # <<>>

\* C4: certificate resolution. The main-package invocation gets the primary
\* certificate first (the product default for an empty spec, the default
\* certificate directory joined with a spec without separator, else the source
\* root joined with the spec), then each additional certificate joined with
\* the source root, in configuration order.
C4_CertificateResolution ==
    \A m \in Modules : \A i \in 1..Len(calls[m].app) :
        LET certs == calls[m].app[i].certificates
            spec == appProperties[m].Certificate
            extra == appProperties[m].Additional_certificates
        IN /\ Len(certs) = 1 + Len(extra)
           /\ spec = EmptyStr => certs[1] = config.DefaultAppCertificate
           /\ (spec # EmptyStr /\ SEP \notin Range(spec)) =>
                 certs[1] = FilepathJoin(<<config.DefaultAppCertificateDir, spec>>)
           /\ SEP \in Range(spec) =>
                 certs[1] = FilepathJoin(<<config.srcDir, spec>>)
           /\ \A k \in 1..Len(extra) :
                 certs[k + 1] = FilepathJoin(<<config.srcDir, extra[k]>>)

C4_Witness ==
    \E m \in Modules :
        /\ calls[m].app # <<>>
        /\ appProperties[m].Certificate = <<"platform">>
        /\ Len(appProperties[m].Additional_certificates) = 2
        /\ appProperties[m].Additional_certificates[1] = <<"media">>
        /\ config.srcDir = <<"/", "src">>

\* C5: both packaging invocations, export-package and main-package, are
\* handed the dependency-file set aaptFlags computed.
C5_BothPassesGetDeps ==
    \A m \in Modules :
        /\ \A i \in 1..Len(calls[m].export) :
              calls[m].export[i].deps = frame[m].aaptDeps
        /\ \A i \in 1..Len(calls[m].app) :
              calls[m].app[i].deps = frame[m].aaptDeps

\* the export-package invocation alone is handed the dependency-file set
C5_ExportPassGetsDeps ==
    \A m \in Modules : \A i \in 1..Len(calls[m].export) :
        /\ calls[m].export[i].deps = frame[m].aaptDeps
        /\ frame[m].aaptDeps # <<>>

\* run with the manifest path old replaced by the path new
SubstManifest(run, old, new) ==
    [flags |-> [i \in 1..Len(run.flags) |->
                   IF run.flags[i] = <<"-M", " ">> \o old
                       THEN <<"-M", " ">> \o new ELSE run.flags[i]],
     deps |-> [i \in 1..Len(run.deps) |->
                   IF run.deps[i] = old THEN new ELSE run.deps[i]]]

\* C6 as stated: after GenerateAndroidBuildActions returns every
\* configuration property, the manifest included, has the value it had before
\* the call, and a second evaluation computes the same base flags and
\* dependency set as the first.
C6_ConfigurationUnchanged ==
    \A m \in Modules : pc[m] = "installed" =>
        /\ Snapshot(m) = hist[m].entry
        /\ \A k \in 2..Len(hist[m].runs) : hist[m].runs[k] = hist[m].runs[k - 1]

\* C6 as amended: every configuration property but the manifest keeps its
\* value (the raw Aaptflags in length and content), the manifest property is
\* nil once the module has been compiled, and a later evaluation computes the
\* base flags and dependency set of the one before with the default manifest
\* in place of the declared one.
C6_OnlyManifestCleared ==
    \A m \in Modules :
        /\ pc[m] # "idle" =>
              [Snapshot(m) EXCEPT !.Manifest = <<>>] =
                  [hist[m].entry EXCEPT !.Manifest = <<>>]
        /\ pc[m] \in {"compiled", "packaged", "installed"} =>
              properties[m].Manifest = <<>>
        /\ pc[m] \in {"flags", "rjava", "resources"} =>
              properties[m].Manifest = hist[m].entry.Manifest
        /\ \A k \in 2..Len(hist[m].runs) :
              hist[m].runs[k] =
                  IF k = 2 /\ hist[m].first.Manifest # <<>>
                      THEN SubstManifest(hist[m].runs[1],
                               PathForModuleSrc(m, hist[m].first.Manifest[1]),
                               PathForModuleSrc(m, <<"AndroidManifest.xml">>))
                      ELSE hist[m].runs[k - 1]

C6_Witness ==
    \E m \in Modules :
        /\ pc[m] = "installed"
        /\ Len(hist[m].runs) = 2
        /\ hist[m].first.Manifest # <<>>
        /\ hist[m].runs[1] # hist[m].runs[2]
        /\ appProperties[m].Aaptflags.len > 0
        /\ Cap(heap[m], appProperties[m].Aaptflags) > appProperties[m].Aaptflags.len
        /\ heap[m][appProperties[m].Aaptflags.arr][appProperties[m].Aaptflags.len + 1]
              = <<"-z">>

\* the invocations of the current evaluation of m, in the order of the code
Invocations(m) == calls[m].rjava \o calls[m].export \o calls[m].app

\* C7: copy isolation. The R-file, export-package and main-package flags are
\* each a copy of the base sequence in a backing array of its own; the base
\* sequence is the same at each copy point and afterwards, the R-file flags
\* are the base sequence, and the other two only extend it.
C7_CopyIsolation ==
    \A m \in Modules : FlagsReturned(m) =>
        LET base == Base(m)
            made == Invocations(m)
        IN /\ \A i \in 1..Len(frame[m].baseSeen) : frame[m].baseSeen[i] = base
           /\ Len(frame[m].baseSeen) = Len(made)
           /\ \A i \in 1..Len(made) :
                 /\ made[i].flags.arr # frame[m].aaptFlags.arr
                 /\ made[i].flags.arr # appProperties[m].Aaptflags.arr
                 /\ \A j \in 1..Len(made) :
                       i # j => made[i].flags.arr # made[j].flags.arr
                 /\ SubSeq(FlagsOf(m, made[i]), 1, Len(base)) = base
           /\ \A i \in 1..Len(calls[m].rjava) :
                 /\ FlagsOf(m, calls[m].rjava[i]) = base
                 /\ \A k \in 1..Len(base) :
                       base[k] = ComputedProduct =>
                           k <= Len(Explicit(m)) /\ Explicit(m)[k] = ComputedProduct

C7_Witness ==
    \E m \in Modules :
        /\ pc[m] = "installed"
        /\ Len(Invocations(m)) = 3
        /\ Positions(Base(m), ProductOpt) = {}
        /\ frame[m].aaptFlags.arr = appProperties[m].Aaptflags.arr
        /\ FlagsOf(m, calls[m].export[1]) = Append(Base(m), ComputedProduct)

\* the collaborators an evaluation of m calls, in order
ExpectedLog(m) ==
    <<"aaptFlags">> \o
    (IF frame[m].hasResources THEN <<"CreateResourceJavaFiles">> ELSE <<>>) \o
    (IF frame[m].hasResources /\ appProperties[m].Export_package_resources
        THEN <<"CreateExportPackage">> ELSE <<>>) \o
    <<"compile", "CreateAppPackage", "InstallFileName">>

IsPrefix(p, q) == Len(p) <= Len(q) /\ SubSeq(q, 1, Len(p)) = p

\* the steps so far of the current evaluation of m are in the stated order
InOrder(m) == IsPrefix(log[m], ExpectedLog(m))

\* C8: orchestration order. Every evaluation computes the flags, then
\* generates the R files (resources present), then runs the export-package
\* invocation (resources present and Export_package_resources set), then
\* compiles, then runs the main-package invocation and then declares the
\* install of <module-name>.apk under "app"; the last two happen exactly once
\* in every evaluation.
C8_OrchestrationOrder ==
    \A m \in Modules :
        /\ pc[m] # "idle" => InOrder(m)
        /\ pc[m] \in {"installed", "panic"} =>
              /\ log[m] = ExpectedLog(m)
              /\ Len(calls[m].app) = 1
              /\ Len(calls[m].install) = 1
              /\ calls[m].install[1].dir = <<"app">>
              /\ calls[m].install[1].name = <<name[m], ".apk">>

\* the order holds of every evaluation in which aaptFlags returns
C8_OrderWhenFlagsReturn ==
    \A m \in Modules : FlagsReturned(m) =>
        /\ InOrder(m)
        /\ pc[m] = "installed" => log[m] = ExpectedLog(m)

\* ctx.OtherModuleName of a dependency
DepName(d) == IF d.kind = "app" THEN name[d.module] ELSE d.name

\* the files the claims let dependency d contribute: its classpath files,
\* or the export package of the framework-res library
Contribution(d) ==
    IF d.kind = "sdk" THEN d.classpath
    ELSE IF d.kind \in {"app", "lib"} /\ DepName(d) = FrameworkRes
        THEN <<PathForModuleOut(d.module, <<"package-export.apk">>)>>
    ELSE <<>>

Contributions(m) == Flatten([i \in 1..Len(deps[m]) |-> Contribution(deps[m][i])])

\* one "-I <path>" flag per contributed file
IncludeFlags(files) == [i \in 1..Len(files) |-> <<"-I", " ">> \o files[i]]

DeclaredSdkVersion(m) ==
    IF deviceProperties[m].Sdk_version = EmptyStr
        THEN config.PlatformSdkVersion ELSE deviceProperties[m].Sdk_version

EntryManifest(m) ==
    PathForModuleSrc(m, IF hist[m].entry.Manifest = <<>>
                            THEN <<"AndroidManifest.xml">>
                            ELSE hist[m].entry.Manifest[1])

C10_DependencyDispatch ==
    \A m \in Modules : pc[m] # "idle" =>
        /\ FlagsReturned(m)
        /\ SelectSeq(Base(m), LAMBDA t : HasPrefix(t, <<"-I", " ">>)) =
              IncludeFlags(Contributions(m))
        /\ frame[m].aaptDeps =
              GlobAll(frame[m].resourceDirs) \o GlobAll(frame[m].assetDirs)
                  \o <<EntryManifest(m)>> \o Contributions(m)
        /\ \A i \in 1..Len(deps[m]) :
              (deps[m][i].kind = "app" /\ DepName(deps[m][i]) = FrameworkRes) =>
                  /\ calls[deps[m][i].module].export # <<>>
                  /\ fields[deps[m][i].module].exportPackage =
                        <<PathForModuleOut(deps[m][i].module, <<"package-export.apk">>)>>

\* the dispatch holds of every evaluation in which aaptFlags returns
C10_DispatchWhenFlagsReturn ==
    \A m \in Modules : FlagsReturned(m) =>
        /\ SelectSeq(Base(m), LAMBDA t : HasPrefix(t, <<"-I", " ">>)) =
              IncludeFlags(Contributions(m))
        /\ frame[m].aaptDeps =
              GlobAll(frame[m].resourceDirs) \o GlobAll(frame[m].assetDirs)
                  \o <<EntryManifest(m)>> \o Contributions(m)

====
